---- MODULE Spec2Model ----
(***************************************************************************)
(* json-mason (src/src/index.ts): JsonMasonUtils (clone, get, set,         *)
(* validateAppendable) and JsonMason (errors, getErrors, apply,            *)
(* executeOperation), modelled over an explicit JavaScript heap so that    *)
(* reference identity, in-place mutation and host TypeErrors are visible.  *)
(*                                                                         *)
(* Values are primitives (undefined, null, number, string, boolean) or     *)
(* references into the heap.  A heap cell is a plain object or an array:   *)
(* a property map keyed by property-key strings, an array also carrying    *)
(* its length (array index i is the property ToString(i), as in JS).       *)
(* Text values are sequences of one-character strings, so that indexing a  *)
(* string and concatenation are computed; error messages and property      *)
(* keys are TLA+ strings.                                                  *)
(*                                                                         *)
(* Documents and operation values supplied by the caller are JSON trees    *)
(* (no shared substructure, no cycles); the module is strict-mode code     *)
(* (an ES module / class body), so writing a property of a primitive       *)
(* throws a TypeError.  The text of host-raised TypeErrors is engine       *)
(* specific; it is abstracted to one fixed message per kind of error.      *)
(* Property lookup covers own properties and the length of arrays and      *)
(* strings; names inherited from Object.prototype and writes to "length"   *)
(* are outside the keys the inputs use.                                    *)
(***************************************************************************)
EXTENDS Integers, Sequences, FiniteSets, TLC

\* ---------------------------------------------------------------- bounds
\* longest operation list handed to apply
MaxOps == 2
\* longest path of an operation in the single-operation specification
MaxPathLen == 2
\* largest array index a property key string is recognised as
MaxIndex == 8

\* ---------------------------------------------------------------- values
Undef == [t |-> "undefined"]
Null == [t |-> "null"]
Num(n) == [t |-> "number", n |-> n]
Str(s) == [t |-> "string", s |-> s]
Bool(b) == [t |-> "boolean", b |-> b]
Ref(a) == [t |-> "ref", a |-> a]

\* tree form of a container (used for the caller's literals and for
\* structural comparison): the children are trees, not references
ObjT(props) == [t |-> "obj", len |-> 0, props |-> props]
ArrT(elems) ==
  [t |-> "arr", len |-> Len(elems),
   props |-> [k \in {ToString(i - 1) : i \in 1..Len(elems)} |->
                elems[(CHOOSE i \in 1..Len(elems) : ToString(i - 1) = k)]]]

\* path keys: a string key or a number key
K(s) == [t |-> "s", s |-> s]
I(n) == [t |-> "n", n |-> n]

\* ToPropertyKey: every property key is a string; a number key is its
\* decimal text
PropertyKey(key) == IF key.t = "n" THEN ToString(key.n) ELSE key.s

IsArrayIndex(p) == \E n \in 0..MaxIndex : ToString(n) = p
IndexOf(p) == CHOOSE n \in 0..MaxIndex : ToString(n) = p

Max(a, b) == IF a >= b THEN a ELSE b
Min(a, b) == IF a <= b THEN a ELSE b

IsObject(v) == v.t = "ref"
IsArray(h, v) == v.t = "ref" /\ h[v.a].kind = "arr"
IsString(v) == v.t = "string"
\* current == null  (loose equality: null or undefined)
IsNullish(v) == v.t \in {"null", "undefined"}

\* ---------------------------------------------------------------- heap
RECURSIVE Struct(_, _)
\* the JSON tree a value denotes in heap h
Struct(h, v) ==
  IF v.t # "ref" THEN v
  ELSE LET o == h[v.a]
       IN [t |-> o.kind, len |-> o.len,
           props |-> [k \in DOMAIN o.props |-> Struct(h, o.props[k])]]

RECURSIVE Alloc(_, _)
RECURSIVE AllocProps(_, _, _, _)
\* builds the tree t in fresh cells of h; children first, then the container
AllocProps(h, tprops, keys, acc) ==
  IF keys = {} THEN [h |-> h, props |-> acc]
  ELSE LET k == CHOOSE x \in keys : TRUE
           r == Alloc(h, tprops[k])
       IN AllocProps(r.h, tprops, keys \ {k}, acc @@ (k :> r.v))

Alloc(h, t) ==
  IF t.t \notin {"obj", "arr"} THEN [h |-> h, v |-> t]
  ELSE LET r == AllocProps(h, t.props, DOMAIN t.props, <<>>)
       IN [h |-> Append(r.h, [kind |-> t.t, len |-> t.len, props |-> r.props]),
           v |-> Ref(Len(r.h) + 1)]

\* the clone that forgets to copy: returns its argument
CloneShared(h, source) == [h |-> h, v |-> source]

\* JsonMasonUtils.clone: structuredClone(source); a primitive is returned as
\* is, a container is rebuilt in fresh cells (own properties, holes and
\* length preserved)
Clone(h, source) == Alloc(h, Struct(h, source))

\* the set of addresses reachable from value v
RECURSIVE Reach(_, _)
Reach(h, v) ==
  IF v.t # "ref" THEN {}
  ELSE {v.a} \cup UNION {Reach(h, h[v.a].props[k]) : k \in DOMAIN h[v.a].props}

\* ---------------------------------------------------------------- host
\* key in current, for an object current
HasProperty(h, current, key) ==
  LET o == h[current.a]
      p == PropertyKey(key)
  IN p \in DOMAIN o.props \/ (o.kind = "arr" /\ p = "length")

\* current[key] for a non-nullish current
GetProp(h, current, key) ==
  LET p == PropertyKey(key)
  IN CASE current.t = "ref" ->
            LET o == h[current.a]
            IN IF p \in DOMAIN o.props THEN o.props[p]
               ELSE IF o.kind = "arr" /\ p = "length" THEN Num(o.len)
               ELSE Undef
       [] current.t = "string" ->
            IF IsArrayIndex(p) /\ IndexOf(p) < Len(current.s)
              THEN Str(<<current.s[IndexOf(p) + 1]>>)
            ELSE IF p = "length" THEN Num(Len(current.s))
            ELSE Undef
       [] OTHER -> Undef

TypeErrorIn == "TypeError: Cannot use 'in' operator to search for a key in a non-object"
TypeErrorNullish == "TypeError: Cannot set properties of null or undefined"
TypeErrorPrimitive == "TypeError: Cannot create property on a primitive value"

Ok(h, v) == [ok |-> TRUE, h |-> h, v |-> v, reason |-> ""]
Fail(h, reason) == [ok |-> FALSE, h |-> h, v |-> Undef, reason |-> reason]

\* current[key] = value  (strict-mode code)
SetProp(h, current, key, value) ==
  LET p == PropertyKey(key)
  IN IF current.t = "ref"
       THEN LET o == h[current.a]
                newLen == IF o.kind = "arr" /\ IsArrayIndex(p)
                            THEN Max(o.len, IndexOf(p) + 1) ELSE o.len
                props == [k \in DOMAIN o.props \cup {p} |->
                            IF k = p THEN value ELSE o.props[k]]
            IN Ok([h EXCEPT ![current.a] =
                     [kind |-> o.kind, len |-> newLen, props |-> props]], value)
     ELSE IF IsNullish(current) THEN Fail(h, TypeErrorNullish)
     ELSE Fail(h, TypeErrorPrimitive)

\* ---------------------------------------------------------------- utils
RECURSIVE GetWalk(_, _, _, _)
GetWalk(h, current, path, i) ==
  IF i > Len(path) THEN current
  ELSE IF IsNullish(current) THEN Undef
  ELSE GetWalk(h, GetProp(h, current, path[i]), path, i + 1)

\* JsonMasonUtils.get
Get(h, obj, path) == GetWalk(h, obj, path, 1)

\* the container choice that ignores the next key
NewContainerMap(nextKey) == [kind |-> "obj", len |-> 0, props |-> <<>>]

\* the container set creates for a missing key, chosen by the next key
NewContainer(nextKey) ==
  IF nextKey.t = "n" THEN [kind |-> "arr", len |-> 0, props |-> <<>>]
  ELSE [kind |-> "obj", len |-> 0, props |-> <<>>]

RECURSIVE SetWalk(_, _, _, _, _)
\* the loop of set over path[i..] (1-based) and the final assignment
SetWalk(h, current, path, i, value) ==
  IF i = Len(path) THEN SetProp(h, current, path[i], value)
  ELSE LET key == path[i]
           nextKey == path[i + 1]
       IN IF ~IsObject(current) THEN Fail(h, TypeErrorIn)
          ELSE IF ~HasProperty(h, current, key)
            THEN LET h1 == Append(h, NewContainer(nextKey))
                     w == SetProp(h1, current, key, Ref(Len(h1)))
                 IN SetWalk(w.h, GetProp(w.h, current, key), path, i + 1, value)
          ELSE SetWalk(h, GetProp(h, current, key), path, i + 1, value)

\* JsonMasonUtils.set
Set(h, obj, path, value) ==
  IF Len(path) = 0 THEN Ok(h, value)
  ELSE LET c == Clone(h, obj)
           w == SetWalk(c.h, c.v, path, 1, value)
       IN IF w.ok THEN Ok(w.h, c.v) ELSE w

\* path.join(".")
RECURSIVE JoinFrom(_, _)
JoinFrom(path, i) ==
  IF i > Len(path) THEN ""
  ELSE IF i = Len(path) THEN PropertyKey(path[i])
  ELSE PropertyKey(path[i]) \o "." \o JoinFrom(path, i + 1)

Join(path) == JoinFrom(path, 1)

\* the validator that only accepts arrays (the message of validateArray)
ValidateAppendableArrayOnly(h, value, path) ==
  IF ~IsArray(h, value)
    THEN Fail(h, "Target at path " \o Join(path) \o " is not an array")
  ELSE Ok(h, value)

\* JsonMasonUtils.validateAppendable
ValidateAppendable(h, value, path) ==
  IF ~IsArray(h, value) /\ ~IsString(value)
    THEN Fail(h, "Target at path " \o Join(path) \o " is not an array or string")
  ELSE Ok(h, value)

\* the removal that deletes the index property and shifts nothing
SpliceLeavingHole(h, target, start, deleteCount) ==
  LET o == h[target.a]
  IN [h EXCEPT ![target.a] =
        [kind |-> "arr", len |-> o.len,
         props |-> [p \in DOMAIN o.props \ {ToString(start)} |-> o.props[p]]]]

\* target.splice(start, deleteCount) on the array cell at target
Splice(h, target, start, deleteCount) ==
  LET o == h[target.a]
      actualStart == IF start < 0 THEN Max(o.len + start, 0) ELSE Min(start, o.len)
      count == Min(Max(deleteCount, 0), o.len - actualStart)
      From(k) == IF k < actualStart THEN k ELSE k + count
      kept == {p \in DOMAIN o.props : ~IsArrayIndex(p)}
      moved == {ToString(k) : k \in {j \in 0..(o.len - count - 1) :
                                       ToString(From(j)) \in DOMAIN o.props}}
      props == [p \in kept \cup moved |->
                  IF p \in moved /\ IsArrayIndex(p)
                    THEN o.props[ToString(From(IndexOf(p)))]
                  ELSE o.props[p]]
  IN [h EXCEPT ![target.a] =
        [kind |-> "arr", len |-> o.len - count, props |-> props]]

\* the removal that assigns undefined instead of deleting the property
DeletePropAsUndefined(h, target, key) ==
  LET o == h[target.a]
      p == PropertyKey(key)
  IN [h EXCEPT ![target.a] =
        [kind |-> o.kind, len |-> o.len,
         props |-> [k \in DOMAIN o.props \cup {p} |->
                      IF k = p THEN Undef ELSE o.props[k]]]]

\* delete target[key] on a plain object cell
DeleteProp(h, target, key) ==
  LET o == h[target.a]
      p == PropertyKey(key)
  IN [h EXCEPT ![target.a] =
        [kind |-> o.kind, len |-> o.len,
         props |-> [k \in DOMAIN o.props \ {p} |-> o.props[k]]]]

\* the insertion that always puts the value last
SpreadAtEnd(h, current, value, atEnd) ==
  LET o == h[current.a]
      n == o.len
      cell == [kind |-> "arr", len |-> n + 1,
               props |-> [p \in {ToString(j) : j \in 0..n} |->
                            IF p = ToString(n) THEN value
                            ELSE IF p \in DOMAIN o.props THEN o.props[p] ELSE Undef]]
  IN [h |-> Append(h, cell), v |-> Ref(Len(h) + 1)]

\* [...current, value] / [value, ...current]: a new array cell; the spread
\* reads indices 0..length-1 (a hole reads as undefined)
SpreadWith(h, current, value, atEnd) ==
  LET o == h[current.a]
      n == o.len
      Elem(j) == IF ToString(j) \in DOMAIN o.props THEN o.props[ToString(j)] ELSE Undef
      cell == [kind |-> "arr", len |-> n + 1,
               props |-> [p \in {ToString(j) : j \in 0..n} |->
                            LET j == CHOOSE x \in 0..n : ToString(x) = p
                            IN IF atEnd THEN (IF j = n THEN value ELSE Elem(j))
                               ELSE (IF j = 0 THEN value ELSE Elem(j - 1))]]
  IN [h |-> Append(h, cell), v |-> Ref(Len(h) + 1)]

Actions == {"set", "append", "prepend", "delete"}

\* the guard that lets the empty path through
NoRootGuard(path) == FALSE

\* if (path.length === 0): the empty-path guard of case "delete"
IsRootPath(path) == Len(path) = 0

\* path[path.length - 1] (undefined, read as the key "undefined", when the
\* path is empty)
LastKey(path) == IF Len(path) = 0 THEN K("undefined") ELSE path[Len(path)]

\* case "delete" of executeOperation
ExecuteDelete(h, source, path) ==
  IF IsRootPath(path) THEN Fail(h, "Cannot delete root object")
  ELSE LET c == Clone(h, source)
           parentPath == SubSeq(path, 1, Len(path) - 1)
           target == IF Len(parentPath) = 0 THEN c.v ELSE Get(c.h, c.v, parentPath)
           key == LastKey(path)
       IN IF IsNullish(target)
            THEN Fail(c.h, "Parent path " \o Join(parentPath) \o " does not exist")
          ELSE IF IsArray(c.h, target)
            THEN IF key.t = "n" THEN Ok(Splice(c.h, target, key.n, 1), c.v)
                 ELSE Fail(c.h, "Invalid array index: " \o key.s)
          ELSE IF IsObject(target) THEN Ok(DeleteProp(c.h, target, key), c.v)
          ELSE Fail(c.h, "Cannot delete from non-object at " \o Join(parentPath))

\* case "append" / "prepend" of executeOperation
ExecuteAppend(h, source, path, action, value) ==
  LET current == Get(h, source, path)
      valid == ValidateAppendable(h, current, path)
  IN IF ~valid.ok THEN valid
     ELSE IF IsString(current)
       THEN IF ~IsString(value)
              THEN Fail(h, "Can only append/prepend strings to strings")
            ELSE Set(h, source, path,
                     IF action = "append" THEN Str(current.s \o value.s)
                     ELSE Str(value.s \o current.s))
     ELSE LET n == SpreadWith(h, current, value, action = "append")
          IN Set(n.h, source, path, n.v)

\* JsonMason.executeOperation
ExecuteOperation(h, source, operation) ==
  CASE operation.action = "set" ->
         Set(h, source, operation.path, operation.value)
    [] operation.action = "delete" ->
         ExecuteDelete(h, source, operation.path)
    [] operation.action \in {"append", "prepend"} ->
         ExecuteAppend(h, source, operation.path, operation.action, operation.value)
    [] OTHER -> Fail(h, "Unknown operation: " \o operation.action)

\* ---------------------------------------------------------------- apply
\* config?.strict ?? true
ConfigAbsent == [given |-> FALSE, strict |-> Undef]
ConfigEmpty == [given |-> TRUE, strict |-> Undef]
ConfigStrict(b) == [given |-> TRUE, strict |-> Bool(b)]
Configs == {ConfigAbsent, ConfigEmpty, ConfigStrict(TRUE), ConfigStrict(FALSE)}

Strict(config) ==
  IF ~config.given \/ IsNullish(config.strict) THEN TRUE ELSE config.strict.b

\* the reset that keeps what the previous call recorded
KeepErrors(errs) == errs

\* this.errors = []; // Reset errors
ResetErrors(errs) == <<>>

\* what strict mode raises when it decorates the reason
ThrowDecorated(h, errs, opError, executed) ==
  [kind |-> "thrown", h |-> h, ret |-> Undef,
   message |-> "Operation failed: " \o opError.reason,
   errors |-> errs, executed |-> executed]

\* if (strict) throw new Error(operationError.reason)
Throw(h, errs, opError, executed) ==
  [kind |-> "thrown", h |-> h, ret |-> Undef, message |-> opError.reason,
   errors |-> errs, executed |-> executed]

\* the non-strict exit that hands back the running result
RecordAndReturnResult(h, errs, src, result, opError, executed) ==
  [kind |-> "returned", h |-> h, ret |-> result, message |-> "",
   errors |-> Append(errs, opError), executed |-> executed]

\* this.errors.push(operationError); return source
RecordAndReturn(h, errs, src, result, opError, executed) ==
  [kind |-> "returned", h |-> h, ret |-> src, message |-> "",
   errors |-> Append(errs, opError), executed |-> executed]

RECURSIVE LoopFromSource(_, _, _, _, _, _, _)
\* the loop that runs every operation against the clone it started from
\* instead of the running result
LoopFromSource(h, errs, src, result, ops, i, strict) ==
  IF i >= Len(ops)
    THEN [kind |-> "returned", h |-> h, ret |-> result, message |-> "",
          errors |-> errs, executed |-> i]
  ELSE LET first == IF i = 0 THEN result ELSE src
           r == ExecuteOperation(h, first, ops[i + 1])
           operationError ==
             [index |-> i, operation |-> ops[i + 1], reason |-> r.reason]
       IN IF r.ok THEN LoopFromSource(r.h, errs, src, r.v, ops, i + 1, strict)
          ELSE IF strict THEN Throw(r.h, errs, operationError, i + 1)
          ELSE RecordAndReturn(r.h, errs, src, result, operationError, i + 1)

RECURSIVE Loop(_, _, _, _, _, _, _)
\* the for loop of apply from index i (0-based) with running result
Loop(h, errs, src, result, ops, i, strict) ==
  IF i >= Len(ops)
    THEN [kind |-> "returned", h |-> h, ret |-> result, message |-> "",
          errors |-> errs, executed |-> i]
  ELSE LET operation == ops[i + 1]
           r == ExecuteOperation(h, result, operation)
       IN IF r.ok THEN Loop(r.h, errs, src, r.v, ops, i + 1, strict)
          ELSE LET operationError ==
                     [index |-> i, operation |-> operation, reason |-> r.reason]
               IN IF strict THEN Throw(r.h, errs, operationError, i + 1)
                  ELSE RecordAndReturn(r.h, errs, src, result, operationError, i + 1)

\* JsonMason.apply on an instance whose errors field holds errs: the outcome
\* of the call, with the errors field it leaves behind
Apply(h, errs, src, ops, config) ==
  LET strict == Strict(config)
      reset == ResetErrors(errs)
      c == Clone(h, src)
  IN Loop(c.h, reset, src, c.v, ops, 0, strict)

\* ---------------------------------------------------------------- inputs
\* all sequences over S of length at most n
RECURSIVE SeqsUpTo(_, _)
SeqsUpTo(S, n) ==
  IF n = 0 THEN {<<>>}
  ELSE LET shorter == SeqsUpTo(S, n - 1)
       IN shorter \cup {Append(q, x) : q \in shorter, x \in S}

Op(path, action, value) == [path |-> path, action |-> action, value |-> value]

\* the documents handed to apply (JSON trees)
DocItems == ObjT("a" :> ObjT(<<>>) @@ "b" :> ArrT(<<Str(<<"x">>)>>))
DocText == ObjT("a" :> Str(<<"h", "i">>) @@ "b" :> Null)
DocList == ArrT(<<ArrT(<<Num(1), Num(2)>>), ObjT("a" :> Num(1))>>)
DocNested == ObjT("a" :> ObjT("b" :> Num(1)) @@ "b" :> ArrT(<<Num(1), Str(<<"x">>)>>))
DocEmpty == ObjT(<<>>)
DocNumber == Num(7)
DocString == Str(<<"h", "i">>)
DocNull == Null

\* the batches of the multi-call specification: a few operations of every
\* action, some failing on some documents, in lists of up to MaxOps
CoreDocs == {DocItems, DocText, DocList, DocNumber}
CoreOps ==
  { Op(<<K("a")>>, "set", Num(1)),
    Op(<<K("b"), K("a")>>, "set", ObjT("a" :> Num(2))),
    Op(<<>>, "set", ArrT(<<Num(3)>>)),
    Op(<<K("b")>>, "append", Str(<<"y">>)),
    Op(<<K("a")>>, "prepend", Str(<<"x">>)),
    Op(<<K("a")>>, "delete", Undef),
    Op(<<>>, "delete", Undef) }
CoreBatches == SeqsUpTo(CoreOps, MaxOps)

\* the single operations of the one-call specification: every action on
\* every path of up to MaxPathLen keys with every value
Keys == {K("a"), K("b"), I(0), I(1), I(-1)}
Paths == SeqsUpTo(Keys, MaxPathLen)
Values == {Num(1), Str(<<"x">>), Null, ObjT("a" :> Num(2))}
AllDocs == {DocItems, DocText, DocList, DocNested, DocEmpty, DocNumber,
            DocString, DocNull}
AllOps ==
  {Op(p, a, v) : p \in Paths, a \in {"set", "append", "prepend"}, v \in Values}
    \cup {Op(p, "delete", Undef) : p \in Paths}

RECURSIVE AllocOps(_, _, _, _)
\* the caller's operation objects: each value literal built in the heap
AllocOps(h, ops, i, acc) ==
  IF i > Len(ops) THEN [h |-> h, ops |-> acc]
  ELSE LET r == Alloc(h, ops[i].value)
       IN AllocOps(r.h, ops, i + 1,
                   Append(acc, Op(ops[i].path, ops[i].action, r.v)))

\* ---------------------------------------------------------------- state
VARIABLES
  heap,        \* the JavaScript heap: cells of objects and arrays
  document,    \* the literal the caller built source from
  source,      \* apply's argument source
  operations,  \* apply's argument operations
  config,      \* apply's argument config
  outcome,     \* "none" | "returned" | "thrown": how the last call ended
  ret,         \* the value the last call returned
  message,     \* the message of the error the last call raised
  errors,      \* JsonMason.errors (what getErrors() returns)
  executed,    \* how many operations the last call handed to executeOperation
  prior        \* Len(errors) when the last call began

vars == <<heap, document, source, operations, config, outcome, ret, message,
          errors, executed, prior>>

\* new JsonMason(): errors = []
Init ==
  /\ heap = <<>>
  /\ document = Undef
  /\ source = Undef
  /\ operations = <<>>
  /\ config = ConfigAbsent
  /\ outcome = "none"
  /\ ret = Undef
  /\ message = ""
  /\ errors = <<>>
  /\ executed = 0
  /\ prior = 0

\* the caller builds source and operations (in fresh cells of the heap), then
\* mason.apply(source, operations, config) runs to its return or throw
ApplyCall(d, ops, cfg) ==
  LET s == Alloc(heap, d)
      o == AllocOps(s.h, ops, 1, <<>>)
      out == Apply(o.h, errors, s.v, o.ops, cfg)
  IN /\ heap' = out.h
     /\ document' = d
     /\ source' = s.v
     /\ operations' = o.ops
     /\ config' = cfg
     /\ outcome' = out.kind
     /\ ret' = out.ret
     /\ message' = out.message
     /\ errors' = out.errors
     /\ executed' = out.executed
     /\ prior' = Len(errors)

\* apply on a batch, on an instance that may have been used before
ApplyBatch ==
  /\ outcome = "none"
  /\ \E d \in CoreDocs, ops \in CoreBatches, cfg \in Configs :
       ApplyCall(d, ops, cfg)

\* the caller drops the arguments and the result of the finished call; the
\* instance keeps errors (and the operation object a record points to)
Discard ==
  /\ outcome # "none"
  /\ LET kept == IF errors = <<>> THEN [h |-> <<>>, v |-> Undef]
                 ELSE Alloc(<<>>, Struct(heap, errors[1].operation.value))
     IN /\ heap' = kept.h
        /\ errors' = [k \in DOMAIN errors |->
                        [errors[k] EXCEPT !.operation.value = kept.v]]
  /\ document' = Undef
  /\ source' = Undef
  /\ operations' = <<>>
  /\ config' = ConfigAbsent
  /\ outcome' = "none"
  /\ ret' = Undef
  /\ message' = ""
  /\ executed' = 0
  /\ prior' = 0

Next == ApplyBatch \/ Discard

Spec == Init /\ [][Next]_vars

\* apply with one operation on a fresh instance
ApplyOne ==
  /\ outcome = "none"
  /\ \E d \in AllDocs, op \in AllOps, cfg \in Configs :
       ApplyCall(d, <<op>>, cfg)

NextOne == ApplyOne

SpecOne == Init /\ [][NextOne]_vars

TypeOK ==
  /\ outcome \in {"none", "returned", "thrown"}
  /\ Len(errors) <= 1
  /\ \A a \in DOMAIN heap : heap[a].len <= MaxIndex

\* ---------------------------------------------------------------- claims
\* JsonMason.getErrors
GetErrors == errors

\* the reason the last call failed with, raised or recorded
FailureReason ==
  IF outcome = "thrown" THEN message
  ELSE IF GetErrors # <<>> THEN GetErrors[Len(GetErrors)].reason
  ELSE ""

RECURSIVE FirstFailing(_, _, _, _)
\* the first operation of ops that fails when each runs on the result of the
\* one before: its index and reason (index -1 when none fails)
FirstFailing(h, result, ops, i) ==
  IF i >= Len(ops) THEN [index |-> -1, reason |-> ""]
  ELSE LET r == ExecuteOperation(h, result, ops[i + 1])
       IN IF r.ok THEN FirstFailing(r.h, r.v, ops, i + 1)
          ELSE [index |-> i, reason |-> r.reason]

FirstFailure == FirstFailing(heap, source, operations, 0)

NonStrictRun == Apply(heap, <<>>, source, operations, ConfigStrict(FALSE))

\* C2: a strict apply (strict true, or config or its flag absent) of a batch
\* with a failing operation raises at the first failing operation, returns no
\* document, and the raised message is the reason a non-strict apply of the
\* same source and operations records at that index.
C2_StrictRaisesSameReason ==
  (outcome # "none" /\ Strict(config) /\ FirstFailure.index >= 0) =>
    /\ outcome = "thrown"
    /\ ret = Undef
    /\ executed = FirstFailure.index + 1
    /\ Len(NonStrictRun.errors) = 1
    /\ NonStrictRun.errors[1].index = FirstFailure.index
    /\ message = NonStrictRun.errors[1].reason

\* a call with config {} that raised at its second operation
C2_Witness ==
  /\ outcome = "thrown"
  /\ config = ConfigEmpty
  /\ Len(operations) = 2
  /\ executed = 2
  /\ message = "Target at path b is not an array or string"

\* C3: whatever the batch and the mode, and whether apply returned or raised,
\* the source passed to apply denotes afterwards the same tree as the literal
\* it was built from: no cell reachable from it was mutated.
C3_SourceUnchanged ==
  outcome # "none" => Struct(heap, source) = document

\* a batch of two operations that both succeeded on a container source and
\* produced a different document
C3_Witness ==
  /\ outcome = "returned"
  /\ IsObject(source)
  /\ executed = 2
  /\ GetErrors = <<>>
  /\ Struct(heap, ret) # document
  /\ Struct(heap, source) = document

\* C4: after any sequence of apply calls getErrors() reflects the most recent
\* call only: empty when that call applied all its operations (even when the
\* call before recorded an error), at most one record, a record only of this
\* call's first failing operation, and a record only when strict was false.
C4_ErrorsOfLastCallOnly ==
  outcome # "none" =>
    /\ Len(GetErrors) <= 1
    /\ FirstFailure.index = -1 => GetErrors = <<>>
    /\ GetErrors # <<>> =>
         /\ ~Strict(config)
         /\ FirstFailure.index >= 0
         /\ GetErrors[1].index = FirstFailure.index
         /\ GetErrors[1].operation = operations[FirstFailure.index + 1]
         /\ GetErrors[1].reason = FirstFailure.reason

\* a call that applied a non-empty batch in full, on an instance whose
\* previous call had recorded an error
C4_Witness ==
  /\ outcome = "returned"
  /\ prior = 1
  /\ Len(operations) >= 1
  /\ executed = Len(operations)
  /\ GetErrors = <<>>

\* C5 as stated: apply(d, [], config) is structurally equal to d and is not
\* the same reference as d, for every document d.
C5_EmptyBatchNeverSameReference ==
  (outcome # "none" /\ operations = <<>>) =>
    /\ outcome = "returned"
    /\ Struct(heap, ret) = document
    /\ ret # source

\* C5 amended: apply(d, [], config) is structurally equal to d; when d is a
\* map or a sequence it is a different reference sharing no cell with d, and
\* when d is a scalar it is that same scalar.
C5_EmptyBatchClones ==
  (outcome # "none" /\ operations = <<>>) =>
    /\ outcome = "returned"
    /\ Struct(heap, ret) = document
    /\ GetErrors = <<>>
    /\ IsObject(source) =>
         (ret # source /\ Reach(heap, ret) \cap Reach(heap, source) = {})
    /\ ~IsObject(source) => ret = source

\* an empty batch applied to a container source
C5_Witness ==
  /\ outcome = "returned"
  /\ operations = <<>>
  /\ IsObject(source)
  /\ ret # source

\* the one operation of a single-operation call
TheOp == operations[1]
OneOpDone(action) ==
  outcome # "none" /\ Len(operations) = 1 /\ TheOp.action = action

\* C6 as stated: a set operation never fails, whatever the document and the
\* path.  (Refuted: a path through null, undefined or a scalar raises a host
\* TypeError.)
C6_WriteAlwaysSucceeds ==
  OneOpDone("set") => (outcome = "returned" /\ GetErrors = <<>>)

\* C7 as stated: after a set at path p with value v, get at p on the result
\* is v, for every document and path.  (Refuted where the set itself fails,
\* see C6: there is no result to read back.)
C7_ReadBackWrittenValue ==
  OneOpDone("set") =>
    /\ outcome = "returned"
    /\ GetErrors = <<>>
    /\ Get(heap, ret, TheOp.path) = TheOp.value

\* the node of the source / of the result at the first j keys of the path
SourceNode(j) == Get(heap, source, SubSeq(TheOp.path, 1, j))
ResultNode(j) == Get(heap, ret, SubSeq(TheOp.path, 1, j))
\* the j-th key of the path names nothing in the source document
MissingInSource(j) ==
  ~(IsObject(SourceNode(j - 1)) /\ HasProperty(heap, SourceNode(j - 1), TheOp.path[j]))

\* set({}, ["users", 0, "name"], "John") = {users: [{name: "John"}]}
SetExample ==
  LET d == Alloc(<<>>, ObjT(<<>>))
      r == Set(d.h, d.v, <<K("users"), I(0), K("name")>>, Str(<<"J", "o", "h", "n">>))
  IN /\ r.ok
     /\ Struct(r.h, r.v) =
          ObjT("users" :> ArrT(<<ObjT("name" :> Str(<<"J", "o", "h", "n">>))>>))

\* C8: when a set over a non-empty path succeeds, every intermediate node that
\* was missing is a new container holding only the next key, an array if the
\* next key is a number and a plain object otherwise, and every intermediate
\* node that existed is still the same kind of container with all its other
\* properties unchanged.
C8_IntermediateContainers ==
  /\ SetExample
  /\ (OneOpDone("set") /\ outcome = "returned" /\ GetErrors = <<>>) =>
       \A j \in 1..(Len(TheOp.path) - 1) :
         LET nextKey == TheOp.path[j + 1]
             node == ResultNode(j)
         IN /\ IsObject(node)
            /\ IF MissingInSource(j)
                 THEN /\ heap[node.a].kind = (IF nextKey.t = "n" THEN "arr" ELSE "obj")
                      /\ DOMAIN heap[node.a].props = {PropertyKey(nextKey)}
               ELSE /\ IsObject(SourceNode(j))
                    /\ heap[node.a].kind = heap[SourceNode(j).a].kind
                    /\ \A p \in DOMAIN heap[SourceNode(j).a].props \ {PropertyKey(nextKey)} :
                         /\ p \in DOMAIN heap[node.a].props
                         /\ Struct(heap, heap[node.a].props[p]) =
                              Struct(heap, heap[SourceNode(j).a].props[p])

\* a set that created a sequence for a missing key followed by a number key
C8_Witness ==
  /\ OneOpDone("set")
  /\ outcome = "returned"
  /\ Len(TheOp.path) = 2
  /\ TheOp.path[2].t = "n"
  /\ MissingInSource(1)
  /\ IsArray(heap, ResultNode(1))

\* C9: a delete with the empty path always fails with "Cannot delete root
\* object": raised in strict mode, recorded (and the source handed back) in
\* non-strict mode, for every document, which is left as it was.
C9_DeleteRootFails ==
  (OneOpDone("delete") /\ TheOp.path = <<>>) =>
    /\ FailureReason = "Cannot delete root object"
    /\ Strict(config) => (outcome = "thrown" /\ ret = Undef)
    /\ ~Strict(config) =>
         (outcome = "returned" /\ Len(GetErrors) = 1 /\ GetErrors[1].index = 0
            /\ ret = source)
    /\ Struct(heap, source) = document

\* a non-strict delete of the root of a container document
C9_Witness ==
  /\ OneOpDone("delete")
  /\ TheOp.path = <<>>
  /\ ~Strict(config)
  /\ IsObject(source)
  /\ FailureReason = "Cannot delete root object"

NotAppendableReason(path) ==
  "Target at path " \o Join(path) \o " is not an array or string"

\* C10: an append or prepend fails with "Target at path <keys joined by dots>
\* is not an array or string" whenever the value at its path is neither an
\* array nor a string (a map, a number, null, or nothing), and never fails
\* with that reason when the value is an array or a string.
C10_NotAppendable ==
  (OneOpDone("append") \/ OneOpDone("prepend")) =>
    LET current == Get(heap, source, TheOp.path)
        appendable == IsArray(heap, current) \/ IsString(current)
    IN /\ ~appendable =>
            /\ FirstFailure.index = 0
            /\ FailureReason = NotAppendableReason(TheOp.path)
            /\ (Strict(config) <=> outcome = "thrown")
       /\ appendable => FailureReason # NotAppendableReason(TheOp.path)
       /\ (TheOp.path = <<K("a"), I(0)>> /\ ~appendable) =>
            FailureReason = "Target at path a.0 is not an array or string"

\* a strict append to an absent path below a map
C10_Witness ==
  /\ OneOpDone("append")
  /\ outcome = "thrown"
  /\ message = "Target at path a.0 is not an array or string"
  /\ Get(heap, source, TheOp.path) = Undef

\* the value at the path of the one operation, in the source
CurrentAtPath == Get(heap, source, TheOp.path)
OneAppendDone == OneOpDone("append") \/ OneOpDone("prepend")

TypeMismatchReason == "Can only append/prepend strings to strings"

\* current followed by value for append, value followed by current for prepend
Concatenated(action, current, value) ==
  IF action = "append" THEN Str(current.s \o value.s) ELSE Str(value.s \o current.s)

\* C11 as stated: when the value at the path is text, append and prepend fail
\* with the type-mismatch reason unless the operation's value is text, and
\* with a text value the value at the path in the result is the
\* concatenation.  (Refuted where the path selects a character of a text:
\* the write-back through set raises a host TypeError, the code bug of C6.)
C11_TextAppendPrepend ==
  (OneAppendDone /\ IsString(CurrentAtPath)) =>
    /\ ~IsString(TheOp.value) =>
         /\ FirstFailure.index = 0
         /\ FailureReason = TypeMismatchReason
    /\ IsString(TheOp.value) =>
         /\ outcome = "returned"
         /\ GetErrors = <<>>
         /\ Get(heap, ret, TheOp.path) =
              Concatenated(TheOp.action, CurrentAtPath, TheOp.value)

RECURSIVE EqualOutside(_, _, _, _)
\* trees t1 and t2 agree everywhere except at and below path[i..]: along the
\* path both are containers of the same kind, length and keys, and every
\* sibling of the path is the same tree
EqualOutside(t1, t2, path, i) ==
  IF i > Len(path) THEN TRUE
  ELSE LET p == PropertyKey(path[i])
       IN /\ t1.t \in {"obj", "arr"}
          /\ t2.t = t1.t
          /\ t2.len = t1.len
          /\ DOMAIN t2.props = DOMAIN t1.props
          /\ p \in DOMAIN t1.props
          /\ \A k \in DOMAIN t1.props \ {p} : t2.props[k] = t1.props[k]
          /\ EqualOutside(t1.props[p], t2.props[p], path, i + 1)

\* C12: when the value at the path is a sequence s, append gives s with the
\* value as the last element and prepend gives s with the value as the first
\* element: one element longer, the elements of s in their order, everything
\* outside the path as it was, and s itself untouched in the source.
C12_SequenceAppendPrepend ==
  (OneAppendDone /\ IsArray(heap, CurrentAtPath)) =>
    /\ outcome = "returned"
    /\ GetErrors = <<>>
    /\ IsArray(heap, Get(heap, ret, TheOp.path))
    /\ LET s == Struct(heap, CurrentAtPath)
           r == Struct(heap, Get(heap, ret, TheOp.path))
           v == Struct(heap, TheOp.value)
       IN /\ r.len = s.len + 1
          /\ DOMAIN r.props = {ToString(j) : j \in 0..s.len}
          /\ IF TheOp.action = "append"
               THEN /\ r.props[ToString(s.len)] = v
                    /\ \A j \in 0..(s.len - 1) :
                         r.props[ToString(j)] = s.props[ToString(j)]
             ELSE /\ r.props[ToString(0)] = v
                  /\ \A j \in 0..(s.len - 1) :
                       r.props[ToString(j + 1)] = s.props[ToString(j)]
    /\ EqualOutside(document, Struct(heap, ret), TheOp.path, 1)
    /\ Struct(heap, source) = document

\* a prepend to a nested sequence of two elements
C12_Witness ==
  /\ OneOpDone("prepend")
  /\ outcome = "returned"
  /\ Len(TheOp.path) >= 1
  /\ IsArray(heap, CurrentAtPath)
  /\ heap[CurrentAtPath.a].len = 2
  /\ heap[Get(heap, ret, TheOp.path).a].len = 3

\* the parent of the path of the one operation, in the source
ParentPath == SubSeq(TheOp.path, 1, Len(TheOp.path) - 1)
ParentInSource == Get(heap, source, ParentPath)
ParentIsMap == IsObject(ParentInSource) /\ ~IsArray(heap, ParentInSource)
\* the same operation executed once more, on the document the call returned
DeleteAgain == ExecuteOperation(heap, ret, TheOp)

\* C13: a delete whose parent is an existing map succeeds; when the field is
\* already absent the result is structurally the document as it was; and
\* executing the same delete on the result succeeds and changes nothing
\* (twice is the same as once).
C13_DeleteOnMapIdempotent ==
  (OneOpDone("delete") /\ Len(TheOp.path) >= 1 /\ ParentIsMap) =>
    /\ outcome = "returned"
    /\ GetErrors = <<>>
    /\ LET before == Struct(heap, ParentInSource)
           after == Struct(heap, Get(heap, ret, ParentPath))
           p == PropertyKey(LastKey(TheOp.path))
       IN /\ after.t = "obj"
          /\ DOMAIN after.props = DOMAIN before.props \ {p}
          /\ \A k \in DOMAIN after.props : after.props[k] = before.props[k]
    /\ EqualOutside(document, Struct(heap, ret), ParentPath, 1)
    /\ ~HasProperty(heap, ParentInSource, LastKey(TheOp.path)) =>
         Struct(heap, ret) = document
    /\ DeleteAgain.ok
    /\ Struct(DeleteAgain.h, DeleteAgain.v) = Struct(heap, ret)

\* a delete of a field that a nested map does not have
C13_Witness ==
  /\ OneOpDone("delete")
  /\ outcome = "returned"
  /\ Len(TheOp.path) = 2
  /\ ParentIsMap
  /\ DOMAIN heap[ParentInSource.a].props # {}
  /\ ~HasProperty(heap, ParentInSource, LastKey(TheOp.path))
  /\ Struct(heap, ret) = document

ParentIsSequence == IsArray(heap, ParentInSource)
InvalidIndexReason(key) == "Invalid array index: " \o PropertyKey(key)

\* the sequence after is the sequence before without its element at index at
WithoutElement(before, after, at) ==
  /\ after.t = "arr"
  /\ after.len = before.len - 1
  /\ DOMAIN after.props = {ToString(j) : j \in 0..(after.len - 1)}
  /\ \A j \in 0..(after.len - 1) :
       after.props[ToString(j)] =
         before.props[ToString(IF j < at THEN j ELSE j + 1)]

\* C14 as stated: when the parent of a delete path is a sequence and the
\* final key is an integer i, the delete succeeds and the sequence in the
\* result is the original without its element at index i, the later elements
\* shifted down by one; with a final key that is not an integer the delete
\* fails with the invalid-index reason.  (Refuted for i at or beyond the
\* length, where nothing is removed, and for negative i, where splice counts
\* from the end.)
C14_DeleteSequenceElement ==
  (OneOpDone("delete") /\ Len(TheOp.path) >= 1 /\ ParentIsSequence) =>
    LET key == LastKey(TheOp.path)
    IN IF key.t = "n"
         THEN /\ outcome = "returned"
              /\ GetErrors = <<>>
              /\ WithoutElement(Struct(heap, ParentInSource),
                                Struct(heap, Get(heap, ret, ParentPath)), key.n)
       ELSE /\ FirstFailure.index = 0
            /\ FailureReason = InvalidIndexReason(key)

\* C14 amended: the delete succeeds for every integer i; for 0 <= i < length
\* the element at i is removed and the later ones shift down; for i >= length
\* the sequence is left as it was; for negative i the element at
\* max(length + i, 0) is removed; everything outside the sequence is
\* unchanged.  A final key that is not a number fails with "Invalid array
\* index: <key>".
C14_DeleteSequenceElementInRange ==
  (OneOpDone("delete") /\ Len(TheOp.path) >= 1 /\ ParentIsSequence) =>
    LET key == LastKey(TheOp.path)
        before == Struct(heap, ParentInSource)
        after == Struct(heap, Get(heap, ret, ParentPath))
        at == IF key.n < 0 THEN Max(before.len + key.n, 0) ELSE key.n
    IN IF key.t = "n"
         THEN /\ outcome = "returned"
              /\ GetErrors = <<>>
              /\ IF at < before.len THEN WithoutElement(before, after, at)
                 ELSE after = before
              /\ EqualOutside(document, Struct(heap, ret), ParentPath, 1)
              /\ Struct(heap, source) = document
       ELSE /\ FirstFailure.index = 0
            /\ FailureReason = InvalidIndexReason(key)
            /\ (TheOp.path = <<K("b"), K("a")>> =>
                  FailureReason = "Invalid array index: a")

\* a delete of the first of two elements of a nested sequence
C14_Witness ==
  /\ OneOpDone("delete")
  /\ outcome = "returned"
  /\ Len(TheOp.path) = 2
  /\ ParentIsSequence
  /\ LastKey(TheOp.path) = I(0)
  /\ heap[ParentInSource.a].len = 2
  /\ heap[Get(heap, ret, ParentPath).a].len = 1
  /\ Struct(heap, Get(heap, ret, TheOp.path)) =
       Struct(heap, Get(heap, source, Append(ParentPath, I(1))))

\* apply of the first k operations, then apply of the rest on what it returned
FirstPart(k) == Apply(heap, <<>>, source, SubSeq(operations, 1, k), config)
SecondPart(k) ==
  Apply(FirstPart(k).h, FirstPart(k).errors, FirstPart(k).ret,
        SubSeq(operations, k + 1, Len(operations)), config)

\* C15: a batch in which no operation fails gives, for every split of the
\* list into A followed by B, the same document as applying A and then
\* applying B to what A returned: the operations run in list order, each on
\* the document produced by the one before.
C15_BatchIsSequentialComposition ==
  (outcome # "none" /\ FirstFailure.index = -1) =>
    /\ outcome = "returned"
    /\ executed = Len(operations)
    /\ \A k \in 0..Len(operations) :
         /\ FirstPart(k).kind = "returned"
         /\ FirstPart(k).errors = <<>>
         /\ SecondPart(k).kind = "returned"
         /\ SecondPart(k).errors = <<>>
         /\ Struct(SecondPart(k).h, SecondPart(k).ret) = Struct(heap, ret)

\* a batch of two operations, each of which changed the document, so that
\* the result differs from applying either one alone
C15_Witness ==
  /\ outcome = "returned"
  /\ Len(operations) = 2
  /\ executed = 2
  /\ GetErrors = <<>>
  /\ Struct(FirstPart(1).h, FirstPart(1).ret) # document
  /\ Struct(heap, ret) # Struct(FirstPart(1).h, FirstPart(1).ret)
  /\ Struct(heap, ret) #
       Struct(Apply(heap, <<>>, source, SubSeq(operations, 2, 2), config).h,
              Apply(heap, <<>>, source, SubSeq(operations, 2, 2), config).ret)

====
